---------------------------- MODULE Spec2Model ----------------------------
(***************************************************************************)
(* Model of the <note-sequence-selector> custom element (class             *)
(* NoteSequenceSelector, later revision).  The element keeps a selected    *)
(* theme key and theme record, mirrors the key onto the host attribute     *)
(* selected-note-sequence-theme-key, shows the theme's primary name on its *)
(* trigger button and dispatches note-sequence-selected events.            *)
(*                                                                         *)
(* Every callback of the element runs synchronously to completion, the     *)
(* nested attributeChangedCallback reactions included, so one action of    *)
(* the model is one top-level operation of the host page or of the user.   *)
(***************************************************************************)
EXTENDS Integers, Sequences, FiniteSets, TLC

VARIABLES
  selectedNoteSequenceThemeKey,  \* #selectedNoteSequenceThemeKey
  selectedNoteSequenceTheme,     \* #selectedNoteSequenceTheme
  buttonText,                    \* #noteSequenceSelectorButton.textContent
  hostAttribute,                 \* attribute selected-note-sequence-theme-key
  dialogOpen,                    \* #noteSequenceSelectorDialog is shown
  checkboxChecked,               \* #toggleMoreInfoCheckbox.checked
  noteSequencesContainer,        \* children of #noteSequencesContainer
  abortController,               \* #abortController: "null", "live", "aborted"
  connected,                     \* the element is in a document
  dispatched,                    \* events dispatched by the last operation
  populated,                     \* list builds run by the last operation
  callbackDepth,                 \* deepest nesting of attributeChangedCallback
                                 \* in the last operation
  trace,                         \* what the last operation did, in order
  lastOp                         \* the last top-level operation, its input
                                 \* and the observable state it started from

vars == <<selectedNoteSequenceThemeKey, selectedNoteSequenceTheme, buttonText,
          hostAttribute, dialogOpen, checkboxChecked, noteSequencesContainer,
          abortController, connected, dispatched, populated, callbackDepth,
          trace, lastOp>>

---------------------------------------------------------------------------
(* JavaScript values.  Null stands for null: the cleared key, the value of *)
(* an absent attribute.  Every other key or attribute value is a string.   *)
Null == "<null>"

EmptyString == ""

(* The theme field holds null, undefined (the result of indexing the       *)
(* catalog object with a key it does not have) or a theme record.          *)
NullTheme == [tag |-> "null"]

UndefinedTheme == [tag |-> "undefined"]

(* ToBoolean of a key: null and the empty string are falsy. *)
TruthyKey(k) == k # Null /\ k # EmptyString

(* ToBoolean of a theme value: null and undefined are falsy. *)
TruthyTheme(t) == t # NullTheme /\ t # UndefinedTheme

---------------------------------------------------------------------------
(* The catalog imported from the music-theory data module.  Object.entries *)
(* walks groups and themes in declaration order, so both are sequences.    *)
noteSequenceThemeGroupsMetadata == <<"diatonicModes", "triads">>

noteSequenceThemes(groupKey) ==
  IF groupKey = "diatonicModes" THEN <<"ionian", "dorian">> ELSE <<"major">>

PrimaryName(k) ==
  CASE k = "ionian" -> "Ionian"
    [] k = "dorian" -> "Dorian"
    [] OTHER -> "Major Triad"

ThemeRecord(k) == [tag |-> "theme", primaryName |-> PrimaryName(k)]

(* Object.keys(allNoteSequenceThemes): the flattened catalog's keys. *)
allNoteSequenceThemesKeys == <<"ionian", "dorian", "major">>

CatalogKeys == {allNoteSequenceThemesKeys[i] : i \in 1..Len(allNoteSequenceThemesKeys)}

(* allNoteSequenceThemes[k]: property access yields undefined for a key    *)
(* the object does not have.                                               *)
allNoteSequenceThemes(k) ==
  IF k \in CatalogKeys THEN ThemeRecord(k) ELSE UndefinedTheme

(* The ids of the elements of noteSequenceSelectorTemplate, which the      *)
(* constructor clones into the shadow root.                                *)
noteSequenceSelectorTemplate ==
  {"note-sequence-selector-button", "note-sequence-selector-dialog",
   "close-dialog-button", "toggle-more-info-label",
   "toggle-more-info-checkbox", "note-sequences-container"}

(* shadowRoot.querySelector("#" + id) in the constructor: TRUE for an      *)
(* element, FALSE for null.                                                *)
querySelector(id) == id \in noteSequenceSelectorTemplate

(* The test of connectedCallback on the four node references. *)
RequiredNodesFound ==
  /\ querySelector("note-sequence-selector-button")
  /\ querySelector("note-sequence-selector-dialog")
  /\ querySelector("note-sequences-container")
  /\ querySelector("toggle-more-info-checkbox")

(* Strings a host can hand to the element that are no catalog key. *)
UnknownKey == "bogus"

PlaceholderText == "Select Sequence"

---------------------------------------------------------------------------
(* The handlers, as functions of the element's state                       *)
(*   el = [key, theme, text, attr, open, events, depth, maxDepth, trace].  *)
(* depth is the number of attributeChangedCallback frames on the stack,    *)
(* maxDepth the largest value it took; trace lists, in order, the writes   *)
(* to the selection fields (by the code that made them), the events        *)
(* dispatched and the dialog's close() calls.                              *)

(* Nesting at which the model stops following callback reactions. *)
MaxCallbackDepth == 4

updateNoteSequenceSelectorButtonTextNoPlaceholder(el) ==
  [el EXCEPT !.text = IF TruthyTheme(el.theme) THEN el.theme.primaryName
                      ELSE @]

updateNoteSequenceSelectorButtonText(el) ==
  [el EXCEPT !.text = IF TruthyTheme(el.theme) THEN el.theme.primaryName
                      ELSE PlaceholderText]

dispatchNoteSequenceSelectedEventUnguarded(el) ==
  [el EXCEPT !.events = Append(@, [noteSequenceThemeKey |-> el.key,
                                   noteSequenceTheme |-> el.theme]),
             !.trace = Append(@, "dispatchEvent")]

(* The guard is !== null on both fields: undefined passes it. *)
dispatchNoteSequenceSelectedEvent(el) ==
  IF el.key # Null /\ el.theme # NullTheme
  THEN [el EXCEPT !.events = Append(@, [noteSequenceThemeKey |-> el.key,
                                        noteSequenceTheme |-> el.theme]),
                  !.trace = Append(@, "dispatchEvent")]
  ELSE el

RECURSIVE setAttribute(_, _)
RECURSIVE removeAttribute(_)
RECURSIVE attributeChangedReaction(_, _, _)
RECURSIVE attributeChangedCallback(_, _, _)
RECURSIVE updateSelectedNoteSequenceAttribute(_)
RECURSIVE setSelectedNoteSequenceThemeKey(_, _)

(* The custom element reaction of an attribute change: one more frame of  *)
(* attributeChangedCallback, run before the DOM call that caused it        *)
(* returns.  Frames beyond MaxCallbackDepth are counted, not entered.      *)
attributeChangedReaction(el, oldValue, newValue) ==
  LET entered == [el EXCEPT !.depth = @ + 1,
                            !.maxDepth = IF el.depth + 1 > @ THEN el.depth + 1 ELSE @]
  IN IF entered.depth > MaxCallbackDepth
     THEN [entered EXCEPT !.depth = el.depth]
     ELSE [attributeChangedCallback(entered, oldValue, newValue)
             EXCEPT !.depth = el.depth]

(* Element.setAttribute on a custom element: the attribute takes the value *)
(* and attributeChangedCallback runs before the call returns, also when    *)
(* the value did not change.                                               *)
setAttribute(el, value) ==
  attributeChangedReaction([el EXCEPT !.attr = value], el.attr, value)

(* Element.removeAttribute: nothing happens when the attribute is absent.  *)
removeAttribute(el) ==
  IF el.attr = Null THEN el
  ELSE attributeChangedReaction([el EXCEPT !.attr = Null], el.attr, Null)

attributeChangedCallbackNoGuard(el, oldValue, newValue) ==
  dispatchNoteSequenceSelectedEvent(
    setSelectedNoteSequenceThemeKey(el, newValue))

attributeChangedCallbackNoDispatch(el, oldValue, newValue) ==
  IF oldValue = newValue THEN el
  ELSE setSelectedNoteSequenceThemeKey(el, newValue)

attributeChangedCallbackDispatchFirst(el, oldValue, newValue) ==
  IF oldValue = newValue THEN dispatchNoteSequenceSelectedEvent(el)
  ELSE dispatchNoteSequenceSelectedEvent(
         setSelectedNoteSequenceThemeKey(el, newValue))

attributeChangedCallback(el, oldValue, newValue) ==
  IF oldValue = newValue THEN el
  ELSE dispatchNoteSequenceSelectedEvent(
         setSelectedNoteSequenceThemeKey(el, newValue))

updateSelectedNoteSequenceAttributeNoRemove(el) ==
  IF TruthyKey(el.key) THEN setAttribute(el, el.key) ELSE el

(* The reflection testing the key against null instead of for truthiness. *)
updateSelectedNoteSequenceAttributeNullTest(el) ==
  IF el.key # Null THEN setAttribute(el, el.key) ELSE removeAttribute(el)

updateSelectedNoteSequenceAttribute(el) ==
  IF TruthyKey(el.key) THEN setAttribute(el, el.key) ELSE removeAttribute(el)

setSelectedNoteSequenceThemeKeyStaleTheme(el, newNoteSequenceThemeKey) ==
  updateSelectedNoteSequenceAttribute(
    updateNoteSequenceSelectorButtonText(
      [el EXCEPT !.trace = Append(@, "setter"),
                 !.key = newNoteSequenceThemeKey,
                 !.theme = IF TruthyKey(newNoteSequenceThemeKey)
                           THEN (IF TruthyTheme(el.theme) THEN el.theme
                                 ELSE allNoteSequenceThemes(newNoteSequenceThemeKey))
                           ELSE NullTheme]))

setSelectedNoteSequenceThemeKeyAlwaysLookup(el, newNoteSequenceThemeKey) ==
  updateSelectedNoteSequenceAttribute(
    updateNoteSequenceSelectorButtonText(
      [el EXCEPT !.trace = Append(@, "setter"),
                 !.key = newNoteSequenceThemeKey,
                 !.theme = allNoteSequenceThemes(newNoteSequenceThemeKey)]))

(* The setter dispatching the event itself after the reflection. *)
setSelectedNoteSequenceThemeKeyDispatching(el, newNoteSequenceThemeKey) ==
  dispatchNoteSequenceSelectedEvent(
    updateSelectedNoteSequenceAttribute(
      updateNoteSequenceSelectorButtonText(
        [el EXCEPT !.trace = Append(@, "setter"),
                   !.key = newNoteSequenceThemeKey,
                   !.theme = IF TruthyKey(newNoteSequenceThemeKey)
                             THEN allNoteSequenceThemes(newNoteSequenceThemeKey)
                             ELSE NullTheme])))

(* The setter closing the dialog, as the entry click listener does. *)
setSelectedNoteSequenceThemeKeyClosing(el, newNoteSequenceThemeKey) ==
  [updateSelectedNoteSequenceAttribute(
     updateNoteSequenceSelectorButtonText(
       [el EXCEPT !.trace = Append(@, "setter"),
                  !.key = newNoteSequenceThemeKey,
                  !.theme = IF TruthyKey(newNoteSequenceThemeKey)
                            THEN allNoteSequenceThemes(newNoteSequenceThemeKey)
                            ELSE NullTheme]))
   EXCEPT !.open = FALSE]

(* set selectedNoteSequenceThemeKey *)
setSelectedNoteSequenceThemeKey(el, newNoteSequenceThemeKey) ==
  updateSelectedNoteSequenceAttribute(
    updateNoteSequenceSelectorButtonText(
      [el EXCEPT !.trace = Append(@, "setter"),
                 !.key = newNoteSequenceThemeKey,
                 !.theme = IF TruthyKey(newNoteSequenceThemeKey)
                           THEN allNoteSequenceThemes(newNoteSequenceThemeKey)
                           ELSE NullTheme]))

(* The method writing the two fields itself instead of assigning the       *)
(* property.                                                               *)
setRandomNoteSequenceDirectWrite(el, index) ==
  updateSelectedNoteSequenceAttribute(
    updateNoteSequenceSelectorButtonText(
      [el EXCEPT !.trace = Append(@, "setRandomNoteSequence"),
                 !.key = allNoteSequenceThemesKeys[index],
                 !.theme = allNoteSequenceThemes(allNoteSequenceThemesKeys[index])]))

(* A rounded index: it can be length, where the key array has no element   *)
(* and the setter receives no key.                                         *)
setRandomNoteSequenceRounded(el, index) ==
  setSelectedNoteSequenceThemeKey(el,
    IF index < Len(allNoteSequenceThemesKeys)
    THEN allNoteSequenceThemesKeys[index + 1] ELSE Null)

(* setRandomNoteSequence: randomIndex is floor(Math.random() * length), a  *)
(* 0-based index below length; index is its 1-based counterpart.           *)
setRandomNoteSequence(el, index) ==
  setSelectedNoteSequenceThemeKey(el, allNoteSequenceThemesKeys[index])

(* #noteSequenceSelectorDialog.showModal() *)
showModal(el) == [el EXCEPT !.open = TRUE]

(* #noteSequenceSelectorDialog.close() *)
close(el) == [el EXCEPT !.open = FALSE, !.trace = Append(@, "close")]

(* The listener closing the dialog before it reflects the key. *)
entryClickListenerCloseFirst(el, key, theme) ==
  updateSelectedNoteSequenceAttribute(
    updateNoteSequenceSelectorButtonText(
      close([el EXCEPT !.trace = Append(@, "entryClickListener"),
                       !.key = key, !.theme = theme])))

(* The click listener of the entry built for (key, theme): it writes the   *)
(* two selection fields itself.                                            *)
entryClickListener(el, key, theme) ==
  close(
    updateSelectedNoteSequenceAttribute(
      updateNoteSequenceSelectorButtonText(
        [el EXCEPT !.trace = Append(@, "entryClickListener"),
                   !.key = key, !.theme = theme])))

(* #noteSequencesContainer.replaceChildren(): no child is left. *)
replaceChildren(container) == <<>>

(* #populateNoteSequences: replaceChildren(), then one block per group in  *)
(* order, each with a hidden description panel and one entry per theme of  *)
(* the group, each entry with a hidden detail panel.                       *)
populateNoteSequencesAppendOnly(container) ==
  container \o
  [g \in 1..Len(noteSequenceThemeGroupsMetadata) |->
    [groupKey |-> noteSequenceThemeGroupsMetadata[g],
     hidden |-> TRUE,
     options |->
       [i \in 1..Len(noteSequenceThemes(noteSequenceThemeGroupsMetadata[g])) |->
         [key |-> noteSequenceThemes(noteSequenceThemeGroupsMetadata[g])[i],
          theme |-> ThemeRecord(noteSequenceThemes(noteSequenceThemeGroupsMetadata[g])[i]),
          hidden |-> TRUE]]]]

populateNoteSequences(container) ==
  replaceChildren(container) \o
  [g \in 1..Len(noteSequenceThemeGroupsMetadata) |->
    [groupKey |-> noteSequenceThemeGroupsMetadata[g],
     hidden |-> TRUE,
     options |->
       [i \in 1..Len(noteSequenceThemes(noteSequenceThemeGroupsMetadata[g])) |->
         [key |-> noteSequenceThemes(noteSequenceThemeGroupsMetadata[g])[i],
          theme |-> ThemeRecord(noteSequenceThemes(noteSequenceThemeGroupsMetadata[g])[i]),
          hidden |-> TRUE]]]]

updateMoreInfoVisibilityEntriesOnly(container, checked) ==
  [g \in 1..Len(container) |->
    [container[g] EXCEPT
       !.options = [i \in 1..Len(container[g].options) |->
                      [container[g].options[i] EXCEPT !.hidden = ~checked]]]]

(* #updateMoreInfoVisibility: classList.toggle("hidden", !checked) on      *)
(* every .more-info-div of the shadow root.                                *)
updateMoreInfoVisibility(container, checked) ==
  [g \in 1..Len(container) |->
    [container[g] EXCEPT
       !.hidden = ~checked,
       !.options = [i \in 1..Len(container[g].options) |->
                      [container[g].options[i] EXCEPT !.hidden = ~checked]]]]

---------------------------------------------------------------------------
(* The element's state as the handlers see it at the start of an operation *)
Cur == [key |-> selectedNoteSequenceThemeKey,
        theme |-> selectedNoteSequenceTheme,
        text |-> buttonText,
        attr |-> hostAttribute,
        open |-> dialogOpen,
        events |-> <<>>,
        depth |-> 0,
        maxDepth |-> 0,
        trace |-> <<>>]

(* What an observer of the element saw before the operation began. *)
Before == [key |-> selectedNoteSequenceThemeKey,
           theme |-> selectedNoteSequenceTheme,
           text |-> buttonText,
           attr |-> hostAttribute,
           open |-> dialogOpen]

Operation(name, input) == [op |-> name, arg |-> input, before |-> Before]

Apply(el) ==
  /\ selectedNoteSequenceThemeKey' = el.key
  /\ selectedNoteSequenceTheme' = el.theme
  /\ buttonText' = el.text
  /\ hostAttribute' = el.attr
  /\ dialogOpen' = el.open
  /\ dispatched' = el.events
  /\ callbackDepth' = el.maxDepth
  /\ trace' = el.trace

(* Values a host can assign to the property / write to the attribute. *)
PropertyInputs == CatalogKeys \cup {UnknownKey, EmptyString, Null}

AttributeInputs == CatalogKeys \cup {UnknownKey, EmptyString}

(* State after construction: the template's button text, no selection. *)
Init ==
  /\ selectedNoteSequenceThemeKey = Null
  /\ selectedNoteSequenceTheme = NullTheme
  /\ buttonText = PlaceholderText
  /\ hostAttribute = Null
  /\ dialogOpen = FALSE
  /\ checkboxChecked = FALSE
  /\ noteSequencesContainer = <<>>
  /\ abortController = "null"
  /\ connected = FALSE
  /\ dispatched = <<>>
  /\ populated = 0
  /\ callbackDepth = 0
  /\ trace = <<>>
  /\ lastOp = [op |-> "constructor", arg |-> Null,
               before |-> [key |-> Null, theme |-> NullTheme,
                           text |-> PlaceholderText, attr |-> Null,
                           open |-> FALSE]]

(* el.selectedNoteSequenceThemeKey = v *)
AssignProperty(v) ==
  /\ Apply(setSelectedNoteSequenceThemeKey(Cur, v))
  /\ populated' = 0
  /\ lastOp' = Operation("assignProperty", v)
  /\ UNCHANGED <<checkboxChecked, noteSequencesContainer, abortController, connected>>

(* el.setAttribute("selected-note-sequence-theme-key", v) by the host *)
WriteAttribute(v) ==
  /\ Apply(setAttribute(Cur, v))
  /\ populated' = 0
  /\ lastOp' = Operation("writeAttribute", v)
  /\ UNCHANGED <<checkboxChecked, noteSequencesContainer, abortController, connected>>

(* el.removeAttribute("selected-note-sequence-theme-key") by the host *)
RemoveAttribute ==
  /\ Apply(removeAttribute(Cur))
  /\ populated' = 0
  /\ lastOp' = Operation("removeAttribute", Null)
  /\ UNCHANGED <<checkboxChecked, noteSequencesContainer, abortController, connected>>

(* el.setRandomNoteSequence() *)
SetRandomNoteSequence(index) ==
  /\ Apply(setRandomNoteSequence(Cur, index))
  /\ populated' = 0
  /\ lastOp' = Operation("setRandomNoteSequence", allNoteSequenceThemesKeys[index])
  /\ UNCHANGED <<checkboxChecked, noteSequencesContainer, abortController, connected>>

(* A click on entry i of group g.  The entry's listener is registered      *)
(* without the abort signal and lives as long as the entry does.           *)
EntryClick(g, i) ==
  /\ g \in 1..Len(noteSequencesContainer)
  /\ i \in 1..Len(noteSequencesContainer[g].options)
  /\ Apply(entryClickListener(Cur, noteSequencesContainer[g].options[i].key,
                              noteSequencesContainer[g].options[i].theme))
  /\ populated' = 0
  /\ lastOp' = Operation("entryClick", noteSequencesContainer[g].options[i].key)
  /\ UNCHANGED <<checkboxChecked, noteSequencesContainer, abortController, connected>>

(* connectedCallback that also dispatches the selection it primed. *)
AttachDispatching ==
  /\ ~connected
  /\ connected' = TRUE
  /\ abortController' = "live"
  /\ noteSequencesContainer' = populateNoteSequences(noteSequencesContainer)
  /\ populated' = 1
  /\ Apply(dispatchNoteSequenceSelectedEvent(
             updateSelectedNoteSequenceAttribute(
               updateNoteSequenceSelectorButtonText(Cur))))
  /\ lastOp' = Operation("attach", Null)
  /\ UNCHANGED checkboxChecked

(* connectedCallback.  The constructor found the four nodes in the         *)
(* element's own template (RequiredNodesFound), so the branch that only    *)
(* logs an error is never taken.                                           *)
Attach ==
  /\ ~connected
  /\ connected' = TRUE
  /\ abortController' = "live"
  /\ IF RequiredNodesFound
     THEN /\ noteSequencesContainer' = populateNoteSequences(noteSequencesContainer)
          /\ populated' = 1
          /\ Apply(updateSelectedNoteSequenceAttribute(
                     updateNoteSequenceSelectorButtonText(Cur)))
     ELSE /\ UNCHANGED noteSequencesContainer
          /\ populated' = 0
          /\ Apply(Cur)
  /\ lastOp' = Operation("attach", Null)
  /\ UNCHANGED checkboxChecked

(* disconnectedCallback: abort() removes the three listeners that were    *)
(* registered with the signal.                                             *)
Detach ==
  /\ connected
  /\ connected' = FALSE
  /\ abortController' = "aborted"
  /\ Apply(Cur)
  /\ populated' = 0
  /\ lastOp' = Operation("detach", Null)
  /\ UNCHANGED <<checkboxChecked, noteSequencesContainer>>

(* A click event on the trigger button.  Its listener exists while the     *)
(* signal of the last attach is not aborted.                               *)
TriggerClick ==
  /\ Apply(IF abortController = "live" THEN showModal(Cur) ELSE Cur)
  /\ populated' = 0
  /\ lastOp' = Operation("triggerClick", Null)
  /\ UNCHANGED <<checkboxChecked, noteSequencesContainer, abortController,
                 connected>>

(* A click event on the close button of the dialog. *)
CloseClick ==
  /\ Apply(IF abortController = "live" THEN close(Cur) ELSE Cur)
  /\ populated' = 0
  /\ lastOp' = Operation("closeClick", Null)
  /\ UNCHANGED <<checkboxChecked, noteSequencesContainer, abortController,
                 connected>>

(* A change event on the checkbox.  While the element is attached it comes *)
(* from the user flipping the box; on a detached element only a synthetic  *)
(* event can reach the checkbox, and it finds no listener.                 *)
ToggleChange ==
  /\ IF abortController = "live"
     THEN /\ checkboxChecked' = ~checkboxChecked
          /\ noteSequencesContainer' =
               updateMoreInfoVisibility(noteSequencesContainer, ~checkboxChecked)
     ELSE UNCHANGED <<checkboxChecked, noteSequencesContainer>>
  /\ Apply(Cur)
  /\ populated' = 0
  /\ lastOp' = Operation("toggleChange", Null)
  /\ UNCHANGED <<abortController, connected>>

Next ==
  \/ \E v \in PropertyInputs : AssignProperty(v)
  \/ \E v \in AttributeInputs : WriteAttribute(v)
  \/ RemoveAttribute
  \/ \E index \in 1..Len(allNoteSequenceThemesKeys) : SetRandomNoteSequence(index)
  \/ \E g \in 1..Len(noteSequenceThemeGroupsMetadata) :
       \E i \in 1..Len(noteSequenceThemes(noteSequenceThemeGroupsMetadata[g])) :
         EntryClick(g, i)
  \/ Attach
  \/ Detach
  \/ TriggerClick
  \/ CloseClick
  \/ ToggleChange

Spec == Init /\ [][Next]_vars

---------------------------------------------------------------------------
TypeOK ==
  /\ selectedNoteSequenceThemeKey \in PropertyInputs
  /\ hostAttribute \in AttributeInputs \cup {Null}
  /\ dialogOpen \in BOOLEAN
  /\ checkboxChecked \in BOOLEAN
  /\ connected \in BOOLEAN
  /\ abortController \in {"null", "live", "aborted"}
  /\ populated \in {0, 1}

---------------------------------------------------------------------------
(* Properties of the selection state machine.                              *)

(* The operations that can select a theme. *)
SelectingOps == {"assignProperty", "writeAttribute", "entryClick",
                 "setRandomNoteSequence"}

(* The event a completed selection of catalog key k carries. *)
SelectedEvent(k) == [noteSequenceThemeKey |-> k, noteSequenceTheme |-> ThemeRecord(k)]

(* C1: once the selection-key property has been assigned a catalog key k,  *)
(* the key is k, the theme is the catalog's record for k and the host      *)
(* attribute equals k, whatever operations came before (the last           *)
(* assignment wins).                                                       *)
C1_AssignCatalogKey ==
  (lastOp.op = "assignProperty" /\ lastOp.arg \in CatalogKeys) =>
    /\ selectedNoteSequenceThemeKey = lastOp.arg
    /\ selectedNoteSequenceTheme = ThemeRecord(lastOp.arg)
    /\ hostAttribute = lastOp.arg

(* A catalog key assigned over a different earlier selection. *)
C1_Witness ==
  /\ lastOp.op = "assignProperty"
  /\ lastOp.arg = "dorian"
  /\ lastOp.before.key = "ionian"
  /\ selectedNoteSequenceThemeKey = "dorian"
  /\ hostAttribute = "dorian"

(* C2: once the property has been assigned null, the key is null, the      *)
(* theme is null and the host attribute is absent.                         *)
C2_AssignNullClears ==
  (lastOp.op = "assignProperty" /\ lastOp.arg = Null) =>
    /\ selectedNoteSequenceThemeKey = Null
    /\ selectedNoteSequenceTheme = NullTheme
    /\ hostAttribute = Null

(* null assigned over an existing selection. *)
C2_Witness ==
  /\ lastOp.op = "assignProperty"
  /\ lastOp.arg = Null
  /\ lastOp.before.key \in CatalogKeys
  /\ lastOp.before.attr \in CatalogKeys
  /\ hostAttribute = Null

(* C3: an operation that changes the selection to a catalog key k other    *)
(* than the key selected before it dispatches exactly one event, whose     *)
(* detail is (k, catalog[k]) and equals the selection after the operation. *)
C3_OneEventPerSelectionChange ==
  (/\ lastOp.op \in SelectingOps
   /\ lastOp.arg \in CatalogKeys
   /\ lastOp.before.key # lastOp.arg
   /\ selectedNoteSequenceThemeKey = lastOp.arg) =>
    /\ dispatched = <<SelectedEvent(lastOp.arg)>>
    /\ dispatched[1].noteSequenceThemeKey = selectedNoteSequenceThemeKey
    /\ dispatched[1].noteSequenceTheme = selectedNoteSequenceTheme

(* An entry click that replaced one selected theme with another: its event *)
(* comes from the nested attribute-changed callback.                       *)
C3_Witness ==
  /\ lastOp.op = "entryClick"
  /\ lastOp.arg = "major"
  /\ lastOp.before.key = "ionian"
  /\ dispatched = <<SelectedEvent("major")>>

(* C4: an operation that clears the selection (the property assigned null, *)
(* the host attribute removed from outside) dispatches no event.           *)
C4_ClearIsSilent ==
  (\/ (lastOp.op = "assignProperty" /\ lastOp.arg = Null)
   \/ lastOp.op = "removeAttribute") =>
    dispatched = <<>>

(* The attribute removed from outside while a theme was selected. *)
C4_Witness ==
  /\ lastOp.op = "removeAttribute"
  /\ lastOp.before.key \in CatalogKeys
  /\ lastOp.before.attr = lastOp.before.key
  /\ selectedNoteSequenceThemeKey = Null
  /\ dispatched = <<>>

(* C5: writing to the host attribute the value it already holds, that      *)
(* value being the selected key, dispatches no event, builds no list and   *)
(* leaves key, theme, label and attribute as they were.                    *)
C5_SameAttributeValueIsNoOp ==
  (/\ lastOp.op = "writeAttribute"
   /\ lastOp.arg = lastOp.before.attr
   /\ lastOp.arg = lastOp.before.key) =>
    /\ dispatched = <<>>
    /\ populated = 0
    /\ selectedNoteSequenceThemeKey = lastOp.before.key
    /\ selectedNoteSequenceTheme = lastOp.before.theme
    /\ buttonText = lastOp.before.text
    /\ hostAttribute = lastOp.before.attr

(* The held catalog key written again. *)
C5_Witness ==
  /\ lastOp.op = "writeAttribute"
  /\ lastOp.arg = "ionian"
  /\ lastOp.before.attr = "ionian"
  /\ lastOp.before.key = "ionian"
  /\ hostAttribute = "ionian"

(* C6: between operations the host attribute is present exactly when the   *)
(* selected key is non-null, and then it holds the selected key.           *)
C6_AttributeMirrorsKey ==
  /\ (hostAttribute # Null) <=> (selectedNoteSequenceThemeKey # Null)
  /\ hostAttribute # Null => hostAttribute = selectedNoteSequenceThemeKey

(* What an observer compares after an operation: key, theme, attribute,    *)
(* label and the events dispatched.                                        *)
Outcome(el) == [key |-> el.key, theme |-> el.theme, attr |-> el.attr,
                text |-> el.text, events |-> el.events]

(* The host writes v to the attribute, null meaning it removes it. *)
ExternalAttributeWrite(el, v) ==
  IF v = Null THEN removeAttribute(el) ELSE setAttribute(el, v)

(* C7: from every reachable state and for every value v (a catalog key, an *)
(* unknown key, or null/absent), writing v to the host attribute and       *)
(* assigning v to the property end in the same key, theme, attribute and   *)
(* label and dispatch the same events.                                     *)
C7_AttributeWriteEqualsPropertyAssignment ==
  \A v \in CatalogKeys \cup {UnknownKey, Null} :
    Outcome(ExternalAttributeWrite(Cur, v)) =
      Outcome(setSelectedNoteSequenceThemeKey(Cur, v))

(* C8, as stated: the selected key is non-null exactly when the selected   *)
(* theme is a record, and then the record is the catalog's for that key.   *)
C8_KeyIffTheme ==
  /\ (selectedNoteSequenceThemeKey # Null) <=> TruthyTheme(selectedNoteSequenceTheme)
  /\ selectedNoteSequenceThemeKey # Null =>
       /\ selectedNoteSequenceThemeKey \in CatalogKeys
       /\ selectedNoteSequenceTheme = ThemeRecord(selectedNoteSequenceThemeKey)

(* C8, amended: the selected theme is a record exactly when the selected   *)
(* key is a catalog key, and then it is the catalog's record for that key; *)
(* a null key always goes with a null theme.                               *)
C8_ThemeIffCatalogKey ==
  /\ TruthyTheme(selectedNoteSequenceTheme) <=>
       selectedNoteSequenceThemeKey \in CatalogKeys
  /\ selectedNoteSequenceThemeKey \in CatalogKeys =>
       selectedNoteSequenceTheme = ThemeRecord(selectedNoteSequenceThemeKey)
  /\ selectedNoteSequenceThemeKey = Null => selectedNoteSequenceTheme = NullTheme

(* A theme selected by an entry click over another selected theme. *)
C8_Witness ==
  /\ lastOp.op = "entryClick"
  /\ lastOp.before.key = "dorian"
  /\ selectedNoteSequenceThemeKey = "ionian"
  /\ selectedNoteSequenceTheme = ThemeRecord("ionian")

(* C9: every dispatched event carries a non-null key and the catalog's     *)
(* record for that key, also after an unknown key was selected.            *)
C9_EventsCarryCatalogRecords ==
  \A n \in 1..Len(dispatched) :
    /\ dispatched[n].noteSequenceThemeKey \in CatalogKeys
    /\ dispatched[n].noteSequenceTheme =
         ThemeRecord(dispatched[n].noteSequenceThemeKey)

(* C10: selecting, by property or attribute, a non-null key the catalog    *)
(* does not have ends with that key stored, a null theme, the attribute    *)
(* equal to the key and the placeholder label.                             *)
C10_UnknownKeyIsStored ==
  (/\ lastOp.op \in {"assignProperty", "writeAttribute"}
   /\ lastOp.arg # Null
   /\ lastOp.arg \notin CatalogKeys) =>
    /\ selectedNoteSequenceThemeKey = lastOp.arg
    /\ selectedNoteSequenceTheme = NullTheme
    /\ hostAttribute = lastOp.arg
    /\ buttonText = PlaceholderText

---------------------------------------------------------------------------
(* Label, random selection, lifecycle, listeners and the list.             *)

(* The label the trigger button shows for a theme value. *)
LabelOf(theme) ==
  IF TruthyTheme(theme) THEN theme.primaryName ELSE PlaceholderText

(* C11: between operations the trigger label is the primary name of the    *)
(* selected theme record when there is one and the placeholder             *)
(* "Select Sequence" when there is none; assigning "ionian" gives the      *)
(* label "Ionian" and assigning null gives the placeholder.                *)
C11_LabelFollowsTheme ==
  /\ buttonText = LabelOf(selectedNoteSequenceTheme)
  /\ ~TruthyTheme(selectedNoteSequenceTheme) => buttonText = "Select Sequence"
  /\ (lastOp.op = "assignProperty" /\ lastOp.arg = "ionian") => buttonText = "Ionian"
  /\ (lastOp.op = "assignProperty" /\ lastOp.arg = Null) => buttonText = "Select Sequence"

(* null assigned right after "Ionian" was on the label. *)
C11_Witness ==
  /\ lastOp.op = "assignProperty"
  /\ lastOp.arg = Null
  /\ lastOp.before.key = "ionian"
  /\ lastOp.before.text = "Ionian"
  /\ buttonText = "Select Sequence"

(* The element as it stood before the last operation, for re-running a     *)
(* handler on it.                                                          *)
ElBefore == [key |-> lastOp.before.key,
             theme |-> lastOp.before.theme,
             text |-> lastOp.before.text,
             attr |-> lastOp.before.attr,
             open |-> lastOp.before.open,
             events |-> <<>>,
             depth |-> 0,
             maxDepth |-> 0,
             trace |-> <<>>]

(* C12: after setRandomNoteSequence the selected key is a key of the       *)
(* flattened catalog, and key, theme, attribute and label are what         *)
(* assigning that key to the property in the same state would have left.   *)
C12_RandomSelectsCatalogKey ==
  lastOp.op = "setRandomNoteSequence" =>
    /\ selectedNoteSequenceThemeKey \in CatalogKeys
    /\ selectedNoteSequenceTheme = ThemeRecord(selectedNoteSequenceThemeKey)
    /\ hostAttribute = selectedNoteSequenceThemeKey
    /\ buttonText = PrimaryName(selectedNoteSequenceThemeKey)
    /\ LET assigned == setSelectedNoteSequenceThemeKey(ElBefore, selectedNoteSequenceThemeKey)
       IN /\ selectedNoteSequenceThemeKey = assigned.key
          /\ selectedNoteSequenceTheme = assigned.theme
          /\ hostAttribute = assigned.attr
          /\ buttonText = assigned.text

(* A random selection of the last catalog key over an unknown key. *)
C12_Witness ==
  /\ lastOp.op = "setRandomNoteSequence"
  /\ lastOp.before.key = UnknownKey
  /\ selectedNoteSequenceThemeKey = allNoteSequenceThemesKeys[Len(allNoteSequenceThemesKeys)]

(* C13: detach leaves key, theme, attribute and label as they were; every  *)
(* attach runs the list build exactly once and ends with the label of the  *)
(* theme selected before it and with the attribute mirroring the key       *)
(* selected before it (absent for a null key, equal to the key otherwise). *)
C13_DetachKeepsAttachRestores ==
  /\ lastOp.op = "detach" =>
       /\ selectedNoteSequenceThemeKey = lastOp.before.key
       /\ selectedNoteSequenceTheme = lastOp.before.theme
       /\ hostAttribute = lastOp.before.attr
       /\ buttonText = lastOp.before.text
  /\ lastOp.op = "attach" =>
       /\ populated = 1
       /\ selectedNoteSequenceThemeKey = lastOp.before.key
       /\ selectedNoteSequenceTheme = lastOp.before.theme
       /\ buttonText = LabelOf(lastOp.before.theme)
       /\ (lastOp.before.key = Null) <=> (hostAttribute = Null)
       /\ lastOp.before.key # Null => hostAttribute = lastOp.before.key

(* C14: every top-level operation runs to its end with at most two nested  *)
(* attributeChangedCallback frames: the first reflects the key onto the    *)
(* attribute, the second finds old and new value equal and returns.        *)
C14_CallbackNestingBounded ==
  /\ callbackDepth <= 2
  /\ callbackDepth < MaxCallbackDepth

(* A property assignment that went through both frames. *)
C14_Witness ==
  /\ lastOp.op = "assignProperty"
  /\ lastOp.arg \in CatalogKeys
  /\ lastOp.before.key # lastOp.arg
  /\ callbackDepth = 2

(* The element's own state: selection, label, attribute, dialog, checkbox  *)
(* and list.                                                               *)
controlState == <<selectedNoteSequenceThemeKey, selectedNoteSequenceTheme,
                  buttonText, hostAttribute, dialogOpen, checkboxChecked,
                  noteSequencesContainer>>

(* C15: after detach and until the next attach, a trigger click, a dismiss *)
(* click, a toggle change or an entry click changes nothing of the control *)
(* and dispatches nothing.                                                 *)
C15_DetachCancelsEveryListener ==
  [][(/\ abortController = "aborted"
      /\ lastOp'.op \in {"triggerClick", "closeClick", "toggleChange", "entryClick"})
     => (UNCHANGED controlState /\ dispatched' = <<>>)]_vars

(* The same for the three listeners that connectedCallback registers with  *)
(* the abort signal.                                                       *)
SignalListenersCancelled ==
  [][(/\ abortController = "aborted"
      /\ lastOp'.op \in {"triggerClick", "closeClick", "toggleChange"})
     => (UNCHANGED controlState /\ dispatched' = <<>>)]_vars

(* The collapsed flags of all "more info" panels of a list, group panels   *)
(* and entry panels alike.                                                 *)
PanelFlags(container) ==
  {container[g].hidden : g \in 1..Len(container)} \cup
  UNION {{container[g].options[i].hidden : i \in 1..Len(container[g].options)} :
           g \in 1..Len(container)}

(* C16: while the element is attached every "more info" panel is collapsed *)
(* exactly when the checkbox is unchecked, also for panels built after the *)
(* checkbox was changed.                                                   *)
C16_PanelsMatchCheckbox ==
  connected => PanelFlags(noteSequencesContainer) = {~checkboxChecked}

(* C17: after a toggle change on the attached element, two further changes *)
(* (to the other value and back) leave every panel classified as it was    *)
(* after the first one, and at each of the three points all panels agree:  *)
(* expanded when the box is checked, collapsed when it is not.             *)
C17_ToggleRoundTrip ==
  (lastOp.op = "toggleChange" /\ abortController = "live") =>
    LET first == noteSequencesContainer
        second == updateMoreInfoVisibility(first, ~checkboxChecked)
        third == updateMoreInfoVisibility(second, checkboxChecked)
    IN /\ third = first
       /\ PanelFlags(first) = {~checkboxChecked}
       /\ PanelFlags(second) = {checkboxChecked}
       /\ PanelFlags(third) = {~checkboxChecked}

(* The box has just been checked and every panel is expanded. *)
C17_Witness ==
  /\ lastOp.op = "toggleChange"
  /\ connected
  /\ checkboxChecked
  /\ PanelFlags(noteSequencesContainer) = {FALSE}

(* The code that wrote the selection fields during the last operation. *)
Writers == {trace[n] : n \in 1..Len(trace)} \ {"dispatchEvent", "close"}

SelectionChanged ==
  \/ selectedNoteSequenceThemeKey # lastOp.before.key
  \/ selectedNoteSequenceTheme # lastOp.before.theme

C19_EntryClickSelectsThenCloses ==
  (lastOp.op = "entryClick" /\ connected) =>
    /\ selectedNoteSequenceThemeKey = lastOp.arg
    /\ selectedNoteSequenceTheme = ThemeRecord(lastOp.arg)
    /\ hostAttribute = lastOp.arg
    /\ buttonText = PrimaryName(lastOp.arg)
    /\ ~dialogOpen
    /\ dispatched \in {<<>>, <<SelectedEvent(lastOp.arg)>>}
    /\ \E c \in 1..Len(trace) :
         /\ trace[c] = "close"
         /\ \A n \in 1..Len(trace) : trace[n] = "dispatchEvent" => n < c

(* An entry activated in the open dialog while another theme was selected. *)
C19_Witness ==
  /\ lastOp.op = "entryClick"
  /\ connected
  /\ lastOp.before.open
  /\ lastOp.before.key = "major"
  /\ lastOp.arg = "dorian"
  /\ dispatched = <<SelectedEvent("dorian")>>
  /\ ~dialogOpen

(* The list holds one block per catalog group, in order, and in each block *)
(* one entry per theme of the group, in order, with the catalog's record.  *)
ListMatchesCatalog(container) ==
  /\ Len(container) = Len(noteSequenceThemeGroupsMetadata)
  /\ \A g \in 1..Len(container) :
       /\ container[g].groupKey = noteSequenceThemeGroupsMetadata[g]
       /\ Len(container[g].options) = Len(noteSequenceThemes(container[g].groupKey))
       /\ \A i \in 1..Len(container[g].options) :
            /\ container[g].options[i].key = noteSequenceThemes(container[g].groupKey)[i]
            /\ container[g].options[i].theme = ThemeRecord(container[g].options[i].key)

(* C20: the list is built by attach and by nothing else, and each build is *)
(* a full rebuild: before the first attach the list is empty, and after    *)
(* any number of attaches and detaches it holds exactly one block per      *)
(* group and one entry per theme, in catalog order.                        *)
C20_ListBuiltOnlyByAttach ==
  /\ abortController = "null" => noteSequencesContainer = <<>>
  /\ abortController # "null" => ListMatchesCatalog(noteSequencesContainer)
  /\ populated = 1 <=> lastOp.op = "attach"

(* Selection, attribute, toggle and click operations leave the list's      *)
(* blocks and entries alone.                                                *)
ListStructure(container) ==
  [g \in 1..Len(container) |->
     [groupKey |-> container[g].groupKey,
      keys |-> [i \in 1..Len(container[g].options) |-> container[g].options[i].key]]]

C20_OnlyAttachChangesList ==
  [][lastOp'.op # "attach" =>
       ListStructure(noteSequencesContainer') = ListStructure(noteSequencesContainer)]_vars

(* A re-attach: the box can only have been checked during an earlier       *)
(* attachment.                                                             *)
C20_Witness ==
  /\ lastOp.op = "attach"
  /\ populated = 1
  /\ checkboxChecked
  /\ ListMatchesCatalog(noteSequencesContainer)

---------------------------------------------------------------------------
(* C22: an attach dispatches no event: the reflection it performs writes   *)
(* the value the attribute already holds, or removes an absent attribute,  *)
(* so the attribute-changed callback either is not run or returns at its   *)
(* equality guard, and the setter is never entered.                        *)
C22_AttachIsSilent ==
  lastOp.op = "attach" =>
    /\ dispatched = <<>>
    /\ callbackDepth <= 1
    /\ \A n \in 1..Len(trace) : trace[n] # "setter"
    /\ selectedNoteSequenceThemeKey = lastOp.before.key
    /\ selectedNoteSequenceTheme = lastOp.before.theme
    /\ hostAttribute = lastOp.before.attr

C22_Witness ==
  /\ lastOp.op = "attach"
  /\ lastOp.before.key \in CatalogKeys
  /\ hostAttribute = lastOp.before.key
  /\ callbackDepth = 1
  /\ populated = 1

(* C23: an entry click or a property assignment for the key that is        *)
(* already selected leaves key, theme, attribute and label as they were    *)
(* and dispatches no event; the entry click leaves the dialog closed.      *)
C23_ReselectingIsSilent ==
  (/\ lastOp.op \in {"entryClick", "assignProperty"}
   /\ lastOp.arg = lastOp.before.key) =>
    /\ selectedNoteSequenceThemeKey = lastOp.before.key
    /\ selectedNoteSequenceTheme = lastOp.before.theme
    /\ hostAttribute = lastOp.before.attr
    /\ buttonText = lastOp.before.text
    /\ dispatched = <<>>
    /\ (lastOp.op = "entryClick" => ~dialogOpen)
    /\ (lastOp.op = "assignProperty" => dialogOpen = lastOp.before.open)

C23_Witness ==
  /\ lastOp.op = "entryClick"
  /\ lastOp.arg \in CatalogKeys
  /\ lastOp.arg = lastOp.before.key
  /\ lastOp.before.open
  /\ ~dialogOpen
  /\ hostAttribute = lastOp.arg

(* C24: writing the empty string to the host attribute ends with key null, *)
(* theme null, the attribute removed and the placeholder label, and        *)
(* dispatches no event.                                                    *)
C24_EmptyAttributeWriteClears ==
  (lastOp.op = "writeAttribute" /\ lastOp.arg = EmptyString) =>
    /\ selectedNoteSequenceThemeKey = Null
    /\ selectedNoteSequenceTheme = NullTheme
    /\ hostAttribute = Null
    /\ buttonText = PlaceholderText
    /\ dispatched = <<>>

C24_Witness ==
  /\ lastOp.op = "writeAttribute"
  /\ lastOp.arg = EmptyString
  /\ lastOp.before.key \in CatalogKeys
  /\ lastOp.before.attr = lastOp.before.key
  /\ selectedNoteSequenceThemeKey = Null
  /\ hostAttribute = Null

(* C25: a toggle change leaves key, theme, attribute, label and the open   *)
(* state of the dialog unchanged and dispatches no event; a property       *)
(* assignment, an attribute write and a random selection leave the         *)
(* checkbox, the collapsed state of every panel and the open state of the  *)
(* dialog unchanged.                                                       *)
C25_SelectionAndVisibilityIndependent ==
  [][/\ lastOp'.op = "toggleChange" =>
          /\ UNCHANGED <<selectedNoteSequenceThemeKey, selectedNoteSequenceTheme,
                         hostAttribute, buttonText, dialogOpen>>
          /\ dispatched' = <<>>
     /\ lastOp'.op \in {"assignProperty", "writeAttribute", "removeAttribute",
                        "setRandomNoteSequence"} =>
          UNCHANGED <<checkboxChecked, noteSequencesContainer, dialogOpen>>]_vars

C25_Witness ==
  /\ lastOp.op \in {"assignProperty", "writeAttribute", "setRandomNoteSequence"}
  /\ lastOp.before.key # selectedNoteSequenceThemeKey
  /\ selectedNoteSequenceThemeKey \in CatalogKeys
  /\ dialogOpen
  /\ checkboxChecked
  /\ noteSequencesContainer # <<>>

=============================================================================
